---- MODULE Spec2Model ----
(***************************************************************************)
(* The registry configuration schema of src/src/configuration/mod.rs and   *)
(* its YAML (de)serialization: parse_str = serde_yaml::from_str driven by  *)
(* the derived Deserialize impls, and serde_yaml::to_string driven by the  *)
(* derived Serialize impls.                                                *)
(*                                                                         *)
(* A YAML document is a tree of nodes:                                     *)
(*   [k |-> "scalar", text, quoted]   a scalar, plain or quoted            *)
(*   [k |-> "map", keys, at]          a mapping; keys in document order    *)
(*   [k |-> "seq", items]             a sequence                           *)
(*   [k |-> "empty"]                  the document with no node at all     *)
(* Scalars are text: numbers, booleans, nulls and durations are parsed     *)
(* from and formatted to characters.                                       *)
(***************************************************************************)
EXTENDS Integers, Sequences, FiniteSets

VARIABLES
    doc,        \* the document handed to parse_str
    pc,         \* position in the parse / serialize / parse / serialize cycle
    cfg,        \* parse_str(doc)
    text,       \* serde_yaml::to_string(cfg)
    cfg2,       \* parse_str(text)
    text2,      \* serde_yaml::to_string(cfg2)
    unitFlat,   \* whether the serde build serializes a flattened unit variant
    durIn,      \* a duration text handed to DurationVisitor::visit_str
    dur,        \* visit_str(durIn)
    durText,    \* Duration::serialize(dur)
    durBack     \* visit_str(durText)

vars == <<doc, pc, cfg, text, cfg2, text2, unitFlat, durIn, dur, durText, durBack>>

\* Bounds of the model.
MaxSecs == 12
MaxInt == 2

NoValue == [none |-> TRUE]
Ok(v) == [ok |-> TRUE, v |-> v]
Err(e) == [ok |-> FALSE, err |-> e]

(***************************************************************************)
(* Text                                                                    *)
(***************************************************************************)
Digits == "0123456789"
Letters == "abcdefghijklmnopqrstuvwxyzABCDEFGHIJKLMNOPQRSTUVWXYZ"

CharAt(s, i) == SubSeq(s, i, i)
InText(c, s) == \E i \in 1..Len(s) : CharAt(s, i) = c
IsDigit(c) == InText(c, Digits)
IsLetter(c) == InText(c, Letters)
IsSpace(c) == c = " "
DigitVal(c) == (CHOOSE i \in 1..Len(Digits) : CharAt(Digits, i) = c) - 1
AllDigits(s) == Len(s) > 0 /\ \A i \in 1..Len(s) : IsDigit(CharAt(s, i))

RECURSIVE Atoi(_)
Atoi(s) == IF Len(s) = 0 THEN 0
           ELSE 10 * Atoi(SubSeq(s, 1, Len(s) - 1)) + DigitVal(CharAt(s, Len(s)))

RECURSIVE Itoa(_)
Itoa(n) == IF n < 0 THEN "-" \o Itoa(0 - n)
           ELSE IF n < 10 THEN CharAt(Digits, n + 1)
           ELSE Itoa(n \div 10) \o CharAt(Digits, (n % 10) + 1)

(***************************************************************************)
(* Duration: humantime::Duration::from_str and Duration::serialize         *)
(***************************************************************************)
NanosPerSec == 1000 * 1000 * 1000

\* Duration::new(secs, nanos): nanoseconds beyond a second carry over
DurationNew(secs, nanos) ==
    [secs |-> secs + (nanos \div NanosPerSec), nanos |-> nanos % NanosPerSec]

\* the unit table of humantime's parser: the (seconds, nanoseconds) n stands for
Unit(u, n) ==
    CASE u \in {"nanos", "nsec", "ns"} -> Ok(<<0, n>>)
      [] u \in {"usec", "us"} -> Ok(<<0, n * 1000>>)
      [] u \in {"millis", "msec", "ms"} -> Ok(<<0, n * 1000000>>)
      [] u \in {"seconds", "second", "secs", "sec", "s"} -> Ok(<<n, 0>>)
      [] u \in {"minutes", "minute", "min", "mins", "m"} -> Ok(<<n * 60, 0>>)
      [] u \in {"hours", "hour", "hr", "hrs", "h"} -> Ok(<<n * 3600, 0>>)
      [] u \in {"days", "day", "d"} -> Ok(<<n * 86400, 0>>)
      [] u \in {"weeks", "week", "w"} -> Ok(<<n * 604800, 0>>)
      [] u \in {"months", "month", "M"} -> Ok(<<n * 2630016, 0>>)
      [] u \in {"years", "year", "y"} -> Ok(<<n * 31557600, 0>>)
      [] OTHER -> Err("unknown unit")

\* parse_unit: add one <number><unit> pair to the running (secs, nanos)
ParseUnit(cur, n, u) ==
    LET r == Unit(u, n) IN
    IF ~r.ok THEN r
    ELSE LET nsec == cur[2] + r.v[2]
             sec  == IF nsec > NanosPerSec THEN r.v[1] + (nsec \div NanosPerSec)
                     ELSE r.v[1]
             ns   == IF nsec > NanosPerSec THEN nsec % NanosPerSec ELSE nsec
         IN Ok(<<cur[1] + sec, ns>>)

RECURSIVE ScanFirst(_, _, _, _), ScanNumber(_, _, _, _), ScanUnit(_, _, _, _, _)
\* parse_first_char: skip whitespace up to the first digit of a number
ScanFirst(s, i, cur, any) ==
    IF i > Len(s)
    THEN IF any THEN Ok(DurationNew(cur[1], cur[2])) ELSE Err("empty")
    ELSE LET c == CharAt(s, i) IN
         IF IsDigit(c) THEN ScanNumber(s, i + 1, DigitVal(c), cur)
         ELSE IF IsSpace(c) THEN ScanFirst(s, i + 1, cur, any)
         ELSE Err("number expected")
\* the digits of a number, up to the first letter of its unit
ScanNumber(s, i, n, cur) ==
    IF i > Len(s) THEN ParseUnit(cur, n, "")
    ELSE LET c == CharAt(s, i) IN
         IF IsDigit(c) THEN ScanNumber(s, i + 1, 10 * n + DigitVal(c), cur)
         ELSE IF IsSpace(c) THEN ScanNumber(s, i + 1, n, cur)
         ELSE IF IsLetter(c) THEN ScanUnit(s, i + 1, i, n, cur)
         ELSE Err("invalid character")
\* the letters of a unit, up to a digit, whitespace or the end
ScanUnit(s, i, start, n, cur) ==
    IF i > Len(s)
    THEN LET r == ParseUnit(cur, n, SubSeq(s, start, i - 1)) IN
         IF r.ok THEN Ok(DurationNew(r.v[1], r.v[2])) ELSE r
    ELSE LET c == CharAt(s, i) IN
         IF IsDigit(c)
         THEN LET r == ParseUnit(cur, n, SubSeq(s, start, i - 1)) IN
              IF r.ok THEN ScanNumber(s, i + 1, DigitVal(c), r.v) ELSE r
         ELSE IF IsSpace(c)
         THEN LET r == ParseUnit(cur, n, SubSeq(s, start, i - 1)) IN
              IF r.ok THEN ScanFirst(s, i + 1, r.v, TRUE) ELSE r
         ELSE IF IsLetter(c) THEN ScanUnit(s, i + 1, start, n, cur)
         ELSE Err("invalid character")

\* humantime::Duration::from_str
FromStr(s) == ScanFirst(s, 1, <<0, 0>>, FALSE)

\* visit_str with an error swallowed: a text that is no duration becomes the default
VisitStrOrDefault(v) ==
    LET r == FromStr(v) IN
    IF r.ok THEN Ok(r.v) ELSE Ok(FromStr("1s").v)

\* DurationVisitor::visit_str: the parsed duration, or a custom error
VisitStr(v) ==
    LET r == FromStr(v) IN
    IF r.ok THEN Ok(r.v) ELSE Err("can't parse the duration")

\* Duration::default
DurationDefault == FromStr("1s").v

\* serialize with the sub-second part written in whole milliseconds
DurationSerializeMillis(d) ==
    Itoa(d.secs) \o "s " \o Itoa(d.nanos \div 1000000) \o "ms"

\* Duration::serialize: "<as_secs>s <subsec_nanos>ns"
DurationSerialize(d) == Itoa(d.secs) \o "s " \o Itoa(d.nanos) \o "ns"

(***************************************************************************)
(* YAML nodes, and the scalar resolution of serde_yaml                     *)
(***************************************************************************)
Plain(t) == [k |-> "scalar", text |-> t, quoted |-> FALSE]
Quoted(t) == [k |-> "scalar", text |-> t, quoted |-> TRUE]
SeqOf(items) == [k |-> "seq", items |-> items]
\* a mapping from a sequence of <<key, node>> pairs, in document order
MapOf(pairs) ==
    [k |-> "map",
     keys |-> [i \in 1..Len(pairs) |-> pairs[i][1]],
     at |-> [key \in {pairs[i][1] : i \in 1..Len(pairs)} |->
                pairs[CHOOSE i \in 1..Len(pairs) : pairs[i][1] = key][2]]]
EmptyDocument == [k |-> "empty"]
HasKey(n, key) == key \in DOMAIN n.at
IsNull(n) == n.k = "scalar" /\ ~n.quoted /\ n.text \in {"~", "null", ""}

\* f64 values: a decimal num / 10^scale without trailing zeros, an infinity,
\* or NaN
RECURSIVE Pow10(_)
Pow10(e) == IF e = 0 THEN 1 ELSE 10 * Pow10(e - 1)
RECURSIVE Finite(_, _)
Finite(num, scale) ==
    IF scale > 0 /\ num % 10 = 0 THEN Finite(num \div 10, scale - 1)
    ELSE [cls |-> "fin", num |-> num, scale |-> scale]
Infinity(neg) == [cls |-> "inf", neg |-> neg]
NaN == [cls |-> "nan"]

\* primitive f64 equality: NaN equals nothing, itself included
F64Eq(a, b) == a.cls # "nan" /\ b.cls # "nan" /\ a = b

IsIntText(t) ==
    \/ AllDigits(t)
    \/ Len(t) > 1 /\ CharAt(t, 1) \in {"-", "+"} /\ AllDigits(Tail(t))
IntOfText(t) ==
    IF CharAt(t, 1) = "-" THEN 0 - Atoi(Tail(t))
    ELSE IF CharAt(t, 1) = "+" THEN Atoi(Tail(t))
    ELSE Atoi(t)

Unsigned(t) == IF Len(t) > 0 /\ CharAt(t, 1) \in {"-", "+"} THEN Tail(t) ELSE t
DotAt(t) == IF InText(".", t) THEN CHOOSE i \in 1..Len(t) : CharAt(t, i) = "." ELSE 0
IsFloatText(t) ==
    LET u == Unsigned(t)
        d == DotAt(u)
        ip == SubSeq(u, 1, d - 1)
        fp == SubSeq(u, d + 1, Len(u))
    IN /\ d > 0
       /\ Len(ip) + Len(fp) > 0
       /\ \A i \in 1..Len(ip) : IsDigit(CharAt(ip, i))
       /\ \A i \in 1..Len(fp) : IsDigit(CharAt(fp, i))
FloatOfText(t) ==
    LET u == Unsigned(t)
        d == DotAt(u)
        ip == SubSeq(u, 1, d - 1)
        fp == SubSeq(u, d + 1, Len(u))
        m == Atoi(ip \o fp)
    IN Finite(IF CharAt(t, 1) = "-" THEN 0 - m ELSE m, Len(fp))

\* serde_yaml's deserialize_any on a node: the serde Content a flattened or
\* untagged value is buffered as.  A quoted scalar is a string; a plain one is
\* null, a boolean, an integer, a float or a string, tried in that order.
Resolve(n) ==
    IF n.k # "scalar" THEN [c |-> n.k]
    ELSE IF n.quoted THEN [c |-> "Str", s |-> n.text]
    ELSE IF IsNull(n) THEN [c |-> "Unit"]
    ELSE IF n.text \in {"true", "false"} THEN [c |-> "Bool", b |-> n.text = "true"]
    ELSE IF IsIntText(n.text)
    THEN IF IntOfText(n.text) >= 0 /\ CharAt(n.text, 1) # "-"
         THEN [c |-> "U64", n |-> IntOfText(n.text)]
         ELSE [c |-> "I64", n |-> IntOfText(n.text)]
    ELSE IF n.text \in {".inf", ".Inf", ".INF", "+.inf"} THEN [c |-> "F64", f |-> Infinity(FALSE)]
    ELSE IF n.text \in {"-.inf", "-.Inf", "-.INF"} THEN [c |-> "F64", f |-> Infinity(TRUE)]
    ELSE IF n.text \in {".nan", ".NaN", ".NAN"} THEN [c |-> "F64", f |-> NaN]
    ELSE IF IsFloatText(n.text) THEN [c |-> "F64", f |-> FloatOfText(n.text)]
    ELSE [c |-> "Str", s |-> n.text]

\* dtoa's text of an f64, as serde_yaml's serialize_f64 writes it
FormatF64(f) ==
    CASE f.cls = "nan" -> ".nan"
      [] f.cls = "inf" -> IF f.neg THEN "-.inf" ELSE ".inf"
      [] OTHER ->
           LET abs == IF f.num < 0 THEN 0 - f.num ELSE f.num
               ip == Itoa(abs \div Pow10(f.scale))
               fr == Itoa(abs % Pow10(f.scale))
               pad == SubSeq("000000000", 1, f.scale - Len(fr))
           IN (IF f.num < 0 THEN "-" ELSE "")
              \o ip \o "." \o (IF f.scale = 0 THEN "0" ELSE pad \o fr)

\* the emitter's need_quotes: a string is written quoted when its plain
\* spelling would not be read back as a string
NeedQuotes(t) ==
    \/ t = ""
    \/ CharAt(t, 1) = " " \/ CharAt(t, Len(t)) = " "
    \/ Resolve(Plain(t)).c # "Str"

EmitStr(t) == IF NeedQuotes(t) THEN Quoted(t) ELSE Plain(t)

(***************************************************************************)
(* Parameter: the untagged enum                                            *)
(***************************************************************************)
Integer(i) == [var |-> "Integer", i |-> i]
Double(f) == [var |-> "Double", f |-> f]
String(s) == [var |-> "String", s |-> s]
Boolean(b) == [var |-> "Boolean", b |-> b]
Null == [var |-> "Null"]

\* the variants with the float declared before the integer
ParameterDoubleFirst == <<"Double", "Integer", "String", "Boolean", "Null">>

\* the variants of Parameter, in declaration order
Parameter == <<"Integer", "Double", "String", "Boolean", "Null">>

\* one variant's attempt at a buffered Content (ContentRefDeserializer)
\* (every integer of the model is within i64, so Integer takes them all)
TryVariant(variant, c) ==
    CASE variant = "Integer" ->
           IF c.c \in {"U64", "I64"} THEN Ok(Integer(c.n)) ELSE Err("invalid type")
      [] variant = "Double" ->
           IF c.c = "F64" THEN Ok(Double(c.f))
           ELSE IF c.c \in {"U64", "I64"} THEN Ok(Double(Finite(c.n, 0)))
           ELSE Err("invalid type")
      [] variant = "String" ->
           IF c.c = "Str" THEN Ok(String(c.s)) ELSE Err("invalid type")
      [] variant = "Boolean" ->
           IF c.c = "Bool" THEN Ok(Boolean(c.b)) ELSE Err("invalid type")
      [] variant = "Null" ->
           IF c.c = "Unit" THEN Ok(Null) ELSE Err("invalid type")

\* #[serde(untagged)]: the first variant, in declaration order, that accepts
RECURSIVE TryFrom(_, _, _)
TryFrom(order, i, c) ==
    IF i > Len(order)
    THEN Err("data did not match any variant of untagged enum Parameter")
    ELSE LET r == TryVariant(order[i], c) IN
         IF r.ok THEN r ELSE TryFrom(order, i + 1, c)

DeserParameter(n) == TryFrom(Parameter, 1, Resolve(n))

\* Parameter's derived Serialize: each variant as its natural literal
SerParameter(p) ==
    CASE p.var = "Integer" -> Plain(Itoa(p.i))
      [] p.var = "Double" -> Plain(FormatF64(p.f))
      [] p.var = "String" -> EmitStr(p.s)
      [] p.var = "Boolean" -> Plain(IF p.b THEN "true" ELSE "false")
      [] p.var = "Null" -> Plain("~")

\* Parameter's derived PartialEq
ParameterEq(a, b) ==
    /\ a.var = b.var
    /\ CASE a.var = "Integer" -> a.i = b.i
         [] a.var = "Double" -> F64Eq(a.f, b.f)
         [] a.var = "String" -> a.s = b.s
         [] a.var = "Boolean" -> a.b = b.b
         [] a.var = "Null" -> TRUE

(***************************************************************************)
(* The schema: every struct as its fields in declaration order.  A field   *)
(* is its Rust name, its document key (the serde rename, else the Rust     *)
(* name), whether it carries #[serde(default)], and its type.              *)
(***************************************************************************)
TString == [k |-> "String"]
TBool == [k |-> "bool"]
TU32 == [k |-> "u32"]
TI32 == [k |-> "i32"]
TDuration == [k |-> "Duration"]
TParameter == [k |-> "Parameter"]
TStorageMedia == [k |-> "StorageMedia"]
TVec(t) == [k |-> "Vec", of |-> t]
TMap(t) == [k |-> "BTreeMap", of |-> t]
TOption(t) == [k |-> "Option", of |-> t]
TStruct(name) == [k |-> "struct", name |-> name]

F(rust, rename, dflt, ty) ==
    [rust |-> rust, key |-> IF rename = "" THEN rust ELSE rename,
     dflt |-> dflt, flat |-> FALSE, ty |-> ty]
\* a #[serde(flatten)] field: it has no key of its own
Flat(rust, dflt, ty) == [rust |-> rust, key |-> "", dflt |-> dflt, flat |-> TRUE, ty |-> ty]

LogLevel == TString
Header == TMap(TVec(TString))
Auth == TMap(TStruct("Parameters"))
\* newtype structs are transparent
Cache == TStruct("Parameters")
Delete == TStruct("Parameters")
Redirect == TStruct("Parameters")

Configuration == <<
    F("version", "", FALSE, TString),
    F("log", "", FALSE, TStruct("Log")),
    F("storage", "", TRUE, TStruct("Storage")),
    F("auth", "", TRUE, Auth),
    F("middleware", "", TRUE, TMap(TVec(TStruct("Middleware")))),
    F("reporting", "", TRUE, TStruct("Reporting")),
    F("http", "", TRUE, TStruct("Http")),
    F("notifications", "", TRUE, TStruct("Notifications")),
    F("redis", "", TRUE, TStruct("Redis")),
    F("health", "", TRUE, TStruct("Health")),
    F("proxy", "", TRUE, TStruct("Proxy")),
    F("compatibility", "", TRUE, TStruct("Compatibility")),
    F("validation", "", TRUE, TStruct("Validation")),
    F("policy", "", TRUE, TStruct("Policy")) >>

Log == <<
    F("access_log", "", TRUE, TStruct("AccessLog")),
    F("level", "", TRUE, LogLevel),
    F("formatter", "", TRUE, TString),
    F("fields", "", TRUE, TMap(TString)),
    F("hooks", "", TRUE, TVec(TStruct("LogHook"))) >>

AccessLog == << F("disabled", "", TRUE, TBool) >>

LogHook == <<
    F("disabled", "", TRUE, TBool),
    F("_type", "type", TRUE, TString),
    F("levels", "", TRUE, TVec(TString)),
    F("mail_options", "", TRUE, TStruct("MailOptions")) >>

\* the bag without #[serde(flatten)]: its one field is filled by the
\* container's #[serde(default)]
ParametersUnflattened == << F("parameters", "", TRUE, TMap(TParameter)) >>

\* a bag: every key of the mapping, collected by the flattened map
Parameters == << Flat("parameters", FALSE, TMap(TParameter)) >>

Storage == <<
    Flat("media", TRUE, TStorageMedia),
    F("maintenance", "", FALSE, TOption(TStruct("Maintenance"))),
    F("cache", "", FALSE, TOption(Cache)),
    F("delete", "", FALSE, TOption(Delete)),
    F("redirect", "", FALSE, TOption(Redirect)) >>

\* the variants of StorageMedia by their serde names, in declaration order
StorageMedia == <<"filesystem", "s3", "inmemory">>

Maintenance == <<
    F("uploadpurging", "", FALSE, TStruct("Parameters")),
    F("readonly", "", FALSE, TStruct("Parameters")) >>

Middleware == <<
    F("name", "", FALSE, TString),
    F("disable", "", TRUE, TBool),
    F("options", "", FALSE, TStruct("Parameters")) >>

Reporting == <<
    F("bugsnag", "", FALSE, TStruct("BugsnagReporting")),
    F("new_relic", "newrelic", TRUE, TStruct("NewRelicReporting")) >>

Http == <<
    F("addr", "", TRUE, TString),
    F("net", "", TRUE, TString),
    F("host", "", TRUE, TString),
    F("prefix", "", TRUE, TString),
    F("secret", "", TRUE, TString),
    F("relative_urls", "relativeurls", TRUE, TBool),
    F("drain_timeout", "draintimeout", TRUE, TDuration),
    F("tls", "", TRUE, TStruct("Tls")),
    F("headers", "", FALSE, Header),
    F("debug", "", TRUE, TStruct("Debug")),
    F("http2", "", TRUE, TStruct("Http2")) >>

Tls == <<
    F("certificate", "", FALSE, TString),
    F("key", "", FALSE, TString),
    F("client_CAs", "clientcas", FALSE, TVec(TString)),
    F("minimum_tls", "minimumtls", TRUE, TString),
    F("lets_encrypt", "letsencrypt", TRUE, TStruct("LetsEncrypt")) >>

LetsEncrypt == <<
    F("cache_file", "cachefile", FALSE, TString),
    F("email", "", FALSE, TString),
    F("hosts", "", TRUE, TVec(TString)) >>

Debug == <<
    F("addr", "", TRUE, TString),
    F("prometheus", "", TRUE, TStruct("Prometheus")) >>

Prometheus == <<
    F("enabled", "", TRUE, TBool),
    F("path", "", TRUE, TString) >>

Http2 == << F("disabled", "", FALSE, TBool) >>

Notifications == <<
    F("event_config", "events", TRUE, TStruct("Events")),
    F("endpoints", "", FALSE, TVec(TStruct("EndPoint"))) >>

Redis == <<
    F("addr", "", FALSE, TString),
    F("password", "", FALSE, TString),
    F("db", "", FALSE, TU32),
    F("dial_timeout", "dialtimeout", TRUE, TDuration),
    F("read_timeout", "readtimeout", TRUE, TDuration),
    F("write_timeout", "writetimeout", TRUE, TDuration),
    F("pool", "", FALSE, TStruct("Pool")) >>

Pool == <<
    F("max_idle", "maxidle", FALSE, TU32),
    F("max_active", "maxactive", FALSE, TU32),
    F("idle_timeout", "idletimeout", FALSE, TDuration) >>

Health == <<
    F("file_checkers", "file", TRUE, TVec(TStruct("FileChecker"))),
    F("http_checkers", "http", TRUE, TVec(TStruct("HttpChecker"))),
    F("tcp_checkers", "tcp", TRUE, TVec(TStruct("TcpChecker"))),
    F("stroage_driver", "storagedriver", FALSE, TStruct("StorageDriver")) >>

Proxy == <<
    F("remote_url", "remoteurl", FALSE, TString),
    F("username", "", FALSE, TString),
    F("password", "", FALSE, TString) >>

Compatibility == << F("schema1", "", FALSE, TStruct("Schema1")) >>

Schema1 == <<
    F("trust_key", "signingkeyfile", TRUE, TString),
    F("enabled", "", TRUE, TBool) >>

Validation == <<
    F("enabled", "", FALSE, TBool),
    F("disabled", "signingkeyfile", TRUE, TBool),
    F("manifests", "", FALSE, TStruct("Manifest")) >>

Manifest == << F("urls", "", FALSE, TStruct("Urls")) >>

Urls == <<
    F("allow", "", FALSE, TVec(TString)),
    F("deny", "", FALSE, TVec(TString)) >>

Policy == << F("repository", "", FALSE, TStruct("Repository")) >>

Repository == << F("classes", "", FALSE, TVec(TString)) >>

MailOptions == <<
    F("smtp", "", TRUE, TStruct("Smtp")),
    F("from", "", TRUE, TString),
    F("to", "", TRUE, TVec(TString)) >>

Smtp == <<
    F("addr", "", TRUE, TString),
    F("username", "", TRUE, TString),
    F("password", "", TRUE, TString),
    F("insecure", "", TRUE, TBool) >>

FileChecker == <<
    F("interval", "", TRUE, TDuration),
    F("file", "", TRUE, TString),
    F("threshold", "", TRUE, TU32) >>

HttpChecker == <<
    F("timeout", "", TRUE, TDuration),
    F("status_code", "statuscode", FALSE, TI32),
    F("interval", "", TRUE, TDuration),
    F("url", "", TRUE, TString),
    F("headers", "", FALSE, Header),
    F("threshold", "", TRUE, TU32) >>

TcpChecker == <<
    F("timeout", "", TRUE, TDuration),
    F("interval", "", TRUE, TDuration),
    F("add", "", TRUE, TString),
    F("threshold", "", TRUE, TU32) >>

StorageDriver == <<
    F("enabled", "", TRUE, TBool),
    F("interval", "", TRUE, TDuration),
    F("threshold", "", TRUE, TU32) >>

Events == << F("include_references", "", FALSE, TBool) >>

EndPoint == <<
    F("name", "", FALSE, TString),
    F("disabled", "", TRUE, TBool),
    F("url", "", FALSE, TString),
    F("headers", "", FALSE, Header),
    F("timeout", "", TRUE, TDuration),
    F("threshold", "", TRUE, TU32),
    F("backoff", "", TRUE, TDuration),
    F("ignore_media_type", "ignoredmediatypes", FALSE, TVec(TString)),
    F("ignore", "", TRUE, TStruct("Ignore")) >>

Ignore == <<
    F("media_types", "mediatypes", TRUE, TVec(TString)),
    F("actions", "", FALSE, TVec(TString)) >>

BugsnagReporting == <<
    F("API_key", "apikey", FALSE, TString),
    F("release_stage", "releasestage", TRUE, TString),
    F("endpoint", "", TRUE, TString) >>

NewRelicReporting == <<
    F("license_key", "licensekey", FALSE, TString),
    F("name", "", FALSE, TString),
    F("verbose", "", FALSE, TBool) >>

StructNames == {
    "Configuration", "Log", "AccessLog", "LogHook", "Parameters", "Storage",
    "Maintenance", "Middleware", "Reporting", "Http", "Tls", "LetsEncrypt",
    "Debug", "Prometheus", "Http2", "Notifications", "Redis", "Pool", "Health",
    "Proxy", "Compatibility", "Schema1", "Validation", "Manifest", "Urls",
    "Policy", "Repository", "MailOptions", "Smtp", "FileChecker", "HttpChecker",
    "TcpChecker", "StorageDriver", "Events", "EndPoint", "Ignore",
    "BugsnagReporting", "NewRelicReporting" }

Fields(name) ==
    CASE name = "Configuration" -> Configuration
      [] name = "Log" -> Log
      [] name = "AccessLog" -> AccessLog
      [] name = "LogHook" -> LogHook
      [] name = "Parameters" -> Parameters
      [] name = "Storage" -> Storage
      [] name = "Maintenance" -> Maintenance
      [] name = "Middleware" -> Middleware
      [] name = "Reporting" -> Reporting
      [] name = "Http" -> Http
      [] name = "Tls" -> Tls
      [] name = "LetsEncrypt" -> LetsEncrypt
      [] name = "Debug" -> Debug
      [] name = "Prometheus" -> Prometheus
      [] name = "Http2" -> Http2
      [] name = "Notifications" -> Notifications
      [] name = "Redis" -> Redis
      [] name = "Pool" -> Pool
      [] name = "Health" -> Health
      [] name = "Proxy" -> Proxy
      [] name = "Compatibility" -> Compatibility
      [] name = "Schema1" -> Schema1
      [] name = "Validation" -> Validation
      [] name = "Manifest" -> Manifest
      [] name = "Urls" -> Urls
      [] name = "Policy" -> Policy
      [] name = "Repository" -> Repository
      [] name = "MailOptions" -> MailOptions
      [] name = "Smtp" -> Smtp
      [] name = "FileChecker" -> FileChecker
      [] name = "HttpChecker" -> HttpChecker
      [] name = "TcpChecker" -> TcpChecker
      [] name = "StorageDriver" -> StorageDriver
      [] name = "Events" -> Events
      [] name = "EndPoint" -> EndPoint
      [] name = "Ignore" -> Ignore
      [] name = "BugsnagReporting" -> BugsnagReporting
      [] name = "NewRelicReporting" -> NewRelicReporting

(***************************************************************************)
(* Deserialize: the derived impls, driven by serde_yaml                    *)
(***************************************************************************)
None == [some |-> FALSE]
Some(v) == [some |-> TRUE, v |-> v]
Filesystem(opts) == [var |-> "filesystem", opts |-> opts]
S3(opts) == [var |-> "s3", opts |-> opts]
InMemory == [var |-> "inmemory"]

Rusts(fs) == {fs[i].rust : i \in 1..Len(fs)}
FieldOf(fs, rust) == fs[CHOOSE i \in 1..Len(fs) : fs[i].rust = rust]
\* the keys a struct's own fields claim; a flattened field gets the others
OwnKeys(fs) == {fs[i].key : i \in {j \in 1..Len(fs) : ~fs[j].flat}}
Collected(fs, n) == SelectSeq(n.keys, LAMBDA key : key \notin OwnKeys(fs))
FirstErr(r) == r[CHOOSE i \in DOMAIN r : ~r[i].ok /\ \A j \in DOMAIN r : ~r[j].ok => i <= j]

\* StorageMedia::default
StorageMediaDefault == Filesystem(<<>>)

\* Default::default, derived field by field
RECURSIVE Default(_)
Default(ty) ==
    CASE ty.k = "String" -> ""
      [] ty.k = "bool" -> FALSE
      [] ty.k \in {"u32", "i32"} -> 0
      [] ty.k = "Duration" -> DurationDefault
      [] ty.k \in {"Vec", "BTreeMap"} -> <<>>
      [] ty.k = "Option" -> None
      [] ty.k = "StorageMedia" -> StorageMediaDefault
      [] ty.k = "struct" ->
           LET fs == Fields(ty.name) IN
           [rust \in Rusts(fs) |-> Default(FieldOf(fs, rust).ty)]

\* the choice by a fixed table: the variants, in declaration order, that are
\* among the keys
ChooseVariantByTable(variants, keys) ==
    SelectSeq(variants, LAMBDA variant : \E i \in 1..Len(keys) : keys[i] = variant)

\* the collected keys that name a variant, in document order
ChooseVariant(variants, keys) ==
    SelectSeq(keys, LAMBDA key : \E i \in 1..Len(variants) : variants[i] = key)

RECURSIVE Deser(_, _), DeserField(_, _, _), DeserMedia(_, _, _)

\* the flattened StorageMedia: FlatMapDeserializer::deserialize_enum takes the
\* first collected entry, in document order, whose key names a variant
DeserMedia(variants, keys, n) ==
    LET hits == ChooseVariant(variants, keys) IN
    IF Len(hits) = 0
    THEN Err("no variant of enum StorageMedia found in flattened data")
    ELSE LET variant == hits[1]
             value == n.at[variant]
         IN IF variant = "inmemory"
            THEN IF IsNull(value) THEN Ok(InMemory) ELSE Err("invalid type")
            ELSE LET r == Deser(TMap(TParameter), value) IN
                 IF ~r.ok THEN r
                 ELSE Ok(IF variant = "filesystem" THEN Filesystem(r.v) ELSE S3(r.v))

\* one field of a struct out of the mapping n
DeserField(fs, f, n) ==
    IF f.flat
    THEN IF f.ty.k = "StorageMedia"
         THEN DeserMedia(StorageMedia, Collected(fs, n), n)
         ELSE LET keys == Collected(fs, n)
                  r == [i \in 1..Len(keys) |-> Deser(f.ty.of, n.at[keys[i]])]
              IN IF \E i \in 1..Len(keys) : ~r[i].ok THEN FirstErr(r)
                 ELSE Ok([key \in {keys[i] : i \in 1..Len(keys)} |->
                            Deser(f.ty.of, n.at[key]).v])
    ELSE IF HasKey(n, f.key) THEN Deser(f.ty, n.at[f.key])
    ELSE IF f.dflt THEN Ok(Default(f.ty))
    ELSE IF f.ty.k = "Option" THEN Ok(None)
    ELSE Err("missing field")

Deser(ty, n) ==
    CASE ty.k = "String" ->
           IF n.k = "scalar" THEN Ok(n.text) ELSE Err("invalid type")
      [] ty.k = "bool" ->
           IF Resolve(n).c = "Bool" THEN Ok(Resolve(n).b) ELSE Err("invalid type")
      [] ty.k = "u32" ->
           IF Resolve(n).c = "U64" THEN Ok(Resolve(n).n) ELSE Err("invalid type")
      [] ty.k = "i32" ->
           IF Resolve(n).c \in {"U64", "I64"} THEN Ok(Resolve(n).n) ELSE Err("invalid type")
      [] ty.k = "Duration" ->
           IF n.k = "scalar" THEN VisitStr(n.text) ELSE Err("invalid type")
      [] ty.k = "Parameter" -> DeserParameter(n)
      [] ty.k = "Option" ->
           IF IsNull(n) THEN Ok(None)
           ELSE LET r == Deser(ty.of, n) IN IF r.ok THEN Ok(Some(r.v)) ELSE r
      [] ty.k = "Vec" ->
           IF n.k # "seq" THEN Err("invalid type")
           ELSE LET r == [i \in 1..Len(n.items) |-> Deser(ty.of, n.items[i])] IN
                IF \E i \in 1..Len(n.items) : ~r[i].ok THEN FirstErr(r)
                ELSE Ok([i \in 1..Len(n.items) |-> r[i].v])
      [] ty.k = "BTreeMap" ->
           IF n.k # "map" THEN Err("invalid type")
           ELSE LET r == [i \in 1..Len(n.keys) |-> Deser(ty.of, n.at[n.keys[i]])] IN
                IF \E i \in 1..Len(n.keys) : ~r[i].ok THEN FirstErr(r)
                ELSE Ok([key \in DOMAIN n.at |-> Deser(ty.of, n.at[key]).v])
      [] ty.k = "struct" ->
           IF n.k # "map" THEN Err("invalid type")
           ELSE LET fs == Fields(ty.name)
                    r == [i \in 1..Len(fs) |-> DeserField(fs, fs[i], n)]
                IN IF \E i \in 1..Len(fs) : ~r[i].ok THEN FirstErr(r)
                   ELSE Ok([rust \in Rusts(fs) |->
                              r[CHOOSE i \in 1..Len(fs) : fs[i].rust = rust].v])

\* parse_str: serde_yaml::from_str into Configuration; `?` hands the error on
ParseStr(content) ==
    IF content.k = "empty" THEN Err("EOF while parsing a value")
    ELSE Deser(TStruct("Configuration"), content)

(***************************************************************************)
(* Serialize: the derived impls, driven by serde_yaml::to_string           *)
(***************************************************************************)
\* the characters of the modelled keys, in byte order
Alphabet == " -./0123456789:<>ABCDEFGHIJKLMNOPQRSTUVWXYZ_abcdefghijklmnopqrstuvwxyz"
Ord(c) == CHOOSE i \in 1..Len(Alphabet) : CharAt(Alphabet, i) = c

\* String's Ord: byte-wise lexicographic
RECURSIVE StrLess(_, _)
StrLess(a, b) ==
    IF Len(b) = 0 THEN FALSE
    ELSE IF Len(a) = 0 THEN TRUE
    ELSE IF Head(a) = Head(b) THEN StrLess(Tail(a), Tail(b))
    ELSE Ord(Head(a)) < Ord(Head(b))

\* BTreeMap iteration order: the keys ascending
RECURSIVE SortKeys(_)
SortKeys(S) ==
    IF S = {} THEN <<>>
    ELSE LET m == CHOOSE x \in S : \A y \in S \ {x} : StrLess(x, y) IN
         <<m>> \o SortKeys(S \ {m})

RECURSIVE Ser(_, _), SerFields(_, _, _)

\* the entries a struct's fields from the i-th on write, in declaration order;
\* a flattened field writes its entries in place
SerFields(fs, i, v) ==
    IF i > Len(fs) THEN <<>>
    ELSE LET f == fs[i]
             x == v[f.rust]
             own ==
               IF ~f.flat THEN << <<f.key, Ser(f.ty, x)>> >>
               ELSE IF f.ty.k = "StorageMedia"
               THEN IF x.var = "inmemory" THEN << <<x.var, Plain("~")>> >>
                    ELSE << <<x.var, Ser(TMap(TParameter), x.opts)>> >>
               ELSE LET keys == SortKeys(DOMAIN x) IN
                    [j \in 1..Len(keys) |-> <<keys[j], Ser(f.ty.of, x[keys[j]])>>]
         IN own \o SerFields(fs, i + 1, v)

Ser(ty, v) ==
    CASE ty.k = "String" -> EmitStr(v)
      [] ty.k = "bool" -> Plain(IF v THEN "true" ELSE "false")
      [] ty.k \in {"u32", "i32"} -> Plain(Itoa(v))
      [] ty.k = "Duration" -> EmitStr(DurationSerialize(v))
      [] ty.k = "Parameter" -> SerParameter(v)
      [] ty.k = "Option" -> IF v.some THEN Ser(ty.of, v.v) ELSE Plain("~")
      [] ty.k = "Vec" -> SeqOf([i \in 1..Len(v) |-> Ser(ty.of, v[i])])
      [] ty.k = "BTreeMap" ->
           LET keys == SortKeys(DOMAIN v) IN
           MapOf([j \in 1..Len(keys) |-> <<keys[j], Ser(ty.of, v[keys[j]])>>])
      [] ty.k = "struct" -> MapOf(SerFields(Fields(ty.name), 1, v))

\* serde_yaml::to_string(&config).  FlatMapSerializer::serialize_unit_variant
\* decides the flattened InMemory: serde builds either refuse it or write it
\* as a null entry.
to_string(config, flattensUnit) ==
    IF config.storage.media.var = "inmemory" /\ ~flattensUnit
    THEN Err("can only flatten structs and maps (got an enum)")
    ELSE Ok(Ser(TStruct("Configuration"), config))

(***************************************************************************)
(* PartialEq, derived field by field                                       *)
(***************************************************************************)
RECURSIVE PartialEq(_, _, _)
PartialEq(ty, a, b) ==
    CASE ty.k \in {"String", "bool", "u32", "i32", "Duration"} -> a = b
      [] ty.k = "Parameter" -> ParameterEq(a, b)
      [] ty.k = "Option" ->
           /\ a.some = b.some
           /\ a.some => PartialEq(ty.of, a.v, b.v)
      [] ty.k = "Vec" ->
           /\ Len(a) = Len(b)
           /\ \A i \in 1..Len(a) : PartialEq(ty.of, a[i], b[i])
      [] ty.k = "BTreeMap" ->
           /\ DOMAIN a = DOMAIN b
           /\ \A key \in DOMAIN a : PartialEq(ty.of, a[key], b[key])
      [] ty.k = "StorageMedia" ->
           /\ a.var = b.var
           /\ a.var # "inmemory" => PartialEq(TMap(TParameter), a.opts, b.opts)
      [] ty.k = "struct" ->
           LET fs == Fields(ty.name) IN
           \A i \in 1..Len(fs) : PartialEq(fs[i].ty, a[fs[i].rust], b[fs[i].rust])

(***************************************************************************)
(* The duration specification: a text is parsed, the duration serialized,  *)
(* and the serialized text parsed again.                                   *)
(***************************************************************************)
SecUnits == {"s", "m", "h", "sec"}
SubSecs == {"0ns", "1ns", "999999999ns", "1000000000ns", "999us", "500ms", "1000ms"}
BadDurations == {"", "abc", "5", "1x", "-1s", "1.5s", "s1"}
DurTexts ==
    { Itoa(a) \o u : a \in 0..MaxSecs, u \in SecUnits }
    \cup { Itoa(a) \o u \o " " \o w : a \in 0..MaxSecs, u \in {"s", "m"}, w \in SubSecs }
    \cup {"1h30m", "1s 0ns", "2 s", "1000000000ns"}
    \cup BadDurations

DurInit ==
    /\ durIn \in DurTexts
    /\ dur = NoValue /\ durText = NoValue /\ durBack = NoValue
    /\ doc = NoValue /\ pc = "durStart" /\ cfg = NoValue /\ text = NoValue
    /\ cfg2 = NoValue /\ text2 = NoValue /\ unitFlat = FALSE

DurParse ==
    /\ pc = "durStart"
    /\ dur' = VisitStr(durIn)
    /\ pc' = "durParsed"
    /\ UNCHANGED <<doc, cfg, text, cfg2, text2, unitFlat, durIn, durText, durBack>>

DurSerialize ==
    /\ pc = "durParsed" /\ dur.ok
    /\ durText' = DurationSerialize(dur.v)
    /\ pc' = "durSerialized"
    /\ UNCHANGED <<doc, cfg, text, cfg2, text2, unitFlat, durIn, dur, durBack>>

DurReparse ==
    /\ pc = "durSerialized"
    /\ durBack' = VisitStr(durText)
    /\ pc' = "durReparsed"
    /\ UNCHANGED <<doc, cfg, text, cfg2, text2, unitFlat, durIn, dur, durText>>

DurNext == DurParse \/ DurSerialize \/ DurReparse

DurSpec == DurInit /\ [][DurNext]_vars

(***************************************************************************)
(* The documents parse_str is given                                        *)
(***************************************************************************)
\* Documents that spell every key of the schema, but for one change: a tweak
\* leaves one field of one struct out, or gives one duration field a text
\* that is no duration.
NoTweak == [kind |-> "none", name |-> "", rust |-> ""]
Omit(name, rust) == [kind |-> "omit", name |-> name, rust |-> rust]
BadDuration(name, rust) == [kind |-> "baddur", name |-> name, rust |-> rust]
\* the same place spelled out with the default's own serialization
Explicit(name, rust) == [kind |-> "explicit", name |-> name, rust |-> rust]
SampleBag == << <<"region", Plain("us-east-1")>>, <<"port", Plain("42")>> >>

RECURSIVE Sample(_, _), SampleFields(_, _, _, _)
SampleFields(name, fs, i, tw) ==
    IF i > Len(fs) THEN <<>>
    ELSE LET f == fs[i]
             hit == tw.name = name /\ tw.rust = f.rust
             own ==
               IF hit /\ tw.kind = "omit" THEN <<>>
               ELSE IF hit /\ tw.kind = "baddur" THEN << <<f.key, Plain("abc")>> >>
               ELSE IF hit /\ tw.kind = "explicit"
               THEN IF f.flat THEN SerFields(<<f>>, 1, [r \in {f.rust} |-> Default(f.ty)])
                    ELSE << <<f.key, Ser(f.ty, Default(f.ty))>> >>
               ELSE IF ~f.flat THEN << <<f.key, Sample(f.ty, tw)>> >>
               ELSE IF f.ty.k = "StorageMedia" THEN << <<"s3", MapOf(SampleBag)>> >>
               ELSE SampleBag
         IN own \o SampleFields(name, fs, i + 1, tw)
Sample(ty, tw) ==
    CASE ty.k = "String" -> Plain("abc")
      [] ty.k = "bool" -> Plain("true")
      [] ty.k = "u32" -> Plain("3")
      [] ty.k = "i32" -> Plain("200")
      [] ty.k = "Duration" -> Plain("1h30m")
      [] ty.k = "Parameter" -> Plain("42")
      [] ty.k = "Option" -> Sample(ty.of, tw)
      [] ty.k = "Vec" -> SeqOf(<<Sample(ty.of, tw)>>)
      [] ty.k = "BTreeMap" -> MapOf(<< <<"X-Key", Sample(ty.of, tw)>> >>)
      [] ty.k = "struct" -> MapOf(SampleFields(ty.name, Fields(ty.name), 1, tw))

Tweaks ==
    {NoTweak}
    \cup UNION { { Omit(name, rust) : rust \in Rusts(Fields(name)) } : name \in StructNames }
    \cup UNION { { BadDuration(name, rust) :
                     rust \in { r \in Rusts(Fields(name)) :
                                  FieldOf(Fields(name), r).ty.k = "Duration" } } :
                 name \in StructNames }
TweakDocs == [tw \in Tweaks |-> Sample(TStruct("Configuration"), tw)]

\* a document of the version, an empty log section, and more sections
Base(more) ==
    MapOf(<< <<"version", Quoted("0.1")>>, <<"log", MapOf(<<>>)>> >> \o more)

\* the scalars a bag holds
Scalars ==
    { Plain(Itoa(i)) : i \in (0 - MaxInt)..MaxInt }
    \cup { Quoted(Itoa(i)) : i \in 0..MaxInt }
    \cup { Plain(t) : t \in {"42", "1.5", "2.0", "-0.25", ".inf", ".nan", "true", "false",
                             "~", "null", "abc", "us-east-1", "/registry", "1h30m"} }
    \cup { Quoted(t) : t \in {"42", "true", "~", "", "1.5", "abc"} }
FewScalars == {Plain("42"), Quoted("x y"), Plain("~")}

\* a bag of undeclared keys, as every place of the schema that holds one
BagDoc(a, b) ==
    LET bag == MapOf(<< <<"zone", a>>, <<"port", b>> >>) IN
    Base(<< <<"storage", MapOf(<< <<"s3", bag>>, <<"cache", bag>>,
                                   <<"delete", bag>>, <<"redirect", bag>> >>)>>,
            <<"auth", MapOf(<< <<"silly", bag>> >>)>>,
            <<"middleware", MapOf(<< <<"registry",
                 SeqOf(<< MapOf(<< <<"name", Plain("redirect")>>, <<"options", bag>> >>) >>)>> >>)>> >>)
BagDocs == { BagDoc(a, b) : a \in Scalars, b \in FewScalars }

\* storage sections: up to two discriminator keys in either order, around
\* the other keys of the section
MediaNode(variant, opts) == IF variant = "inmemory" THEN Plain("~") ELSE MapOf(opts)
Discriminators ==
    {<<>>} \cup { <<a>> : a \in {"filesystem", "s3", "inmemory"} }
    \cup { <<a, b>> : a, b \in {"filesystem", "s3", "inmemory"} }
Others ==
    { <<>>, << <<"cache", MapOf(<< <<"blobdescriptor", Plain("inmemory")>> >>)>> >>,
      << <<"delete", MapOf(<< <<"enabled", Plain("true")>> >>)>>, <<"redirect", Plain("~")>> >> }
OptionBags == { <<>>, << <<"rootdirectory", Plain("/registry")>> >> }
StorageDoc(ds, opts, others) ==
    Base(<< <<"storage",
              MapOf([i \in 1..Len(ds) |-> <<ds[i], MediaNode(ds[i], opts)>>] \o others)>> >>)
StorageDocs ==
    { StorageDoc(ds, opts, others) :
        ds \in { d \in Discriminators : Len(d) < 2 \/ d[1] # d[2] },
        opts \in OptionBags, others \in Others }
\* two discriminator keys, one of them with a value that is no mapping
MalformedFirst ==
    Base(<< <<"storage", MapOf(<< <<"s3", Plain("abc")>>, <<"filesystem", MapOf(<<>>)>> >>)>> >>)
MalformedSecond ==
    Base(<< <<"storage", MapOf(<< <<"s3", MapOf(<<>>)>>, <<"filesystem", Plain("abc")>> >>)>> >>)

\* documents with a duration text deep inside a list entry
DurationDoc(t) ==
    Base(<< <<"health", MapOf(<< <<"storagedriver", MapOf(<< <<"interval", Plain(t)>> >>)>>,
                                  <<"tcp", SeqOf(<< MapOf(<< <<"timeout", Plain(t)>> >>) >>)>> >>)>> >>)
DurationDocs == { DurationDoc(t) : t \in BadDurations \cup {"1s", "1h30m", "1s 0ns", "500ms"} }

\* the smallest documents
VersionOnly == MapOf(<< <<"version", Quoted("0.1")>> >>)
SmallDocs ==
    { EmptyDocument, MapOf(<<>>), VersionOnly, MapOf(<< <<"version", Plain("0.1")>> >>),
      Base(<<>>), MapOf(<< <<"log", MapOf(<<>>)>> >>) }

Documents ==
    { TweakDocs[tw] : tw \in Tweaks }
    \cup BagDocs \cup StorageDocs \cup DurationDocs \cup SmallDocs
    \cup {MalformedFirst, MalformedSecond}

(***************************************************************************)
(* The configuration specification: the cycle of test_parse_roundtrip on   *)
(* any document: parse, serialize, parse again, serialize again.           *)
(***************************************************************************)
Init ==
    /\ doc \in Documents
    /\ unitFlat \in BOOLEAN
    /\ pc = "start"
    /\ cfg = NoValue /\ text = NoValue /\ cfg2 = NoValue /\ text2 = NoValue
    /\ durIn = NoValue /\ dur = NoValue /\ durText = NoValue /\ durBack = NoValue

Parse ==
    /\ pc = "start"
    /\ cfg' = ParseStr(doc)
    /\ pc' = "parsed"
    /\ UNCHANGED <<doc, text, cfg2, text2, unitFlat, durIn, dur, durText, durBack>>

Serialize ==
    /\ pc = "parsed" /\ cfg.ok
    /\ text' = to_string(cfg.v, unitFlat)
    /\ pc' = "serialized"
    /\ UNCHANGED <<doc, cfg, cfg2, text2, unitFlat, durIn, dur, durText, durBack>>

Reparse ==
    /\ pc = "serialized" /\ text.ok
    /\ cfg2' = ParseStr(text.v)
    /\ pc' = "reparsed"
    /\ UNCHANGED <<doc, cfg, text, text2, unitFlat, durIn, dur, durText, durBack>>

Reserialize ==
    /\ pc = "reparsed" /\ cfg2.ok
    /\ text2' = to_string(cfg2.v, unitFlat)
    /\ pc' = "done"
    /\ UNCHANGED <<doc, cfg, text, cfg2, unitFlat, durIn, dur, durText, durBack>>

Next == Parse \/ Serialize \/ Reparse \/ Reserialize

Spec == Init /\ [][Next]_vars

(***************************************************************************)
(* Properties                                                              *)
(***************************************************************************)
ConfigurationT == TStruct("Configuration")

\* C1: round-trip law: once a parsed Configuration c has been serialized and
\* parsed again, the second parse succeeded and its Configuration equals c
\* (PartialEq), and serializing it again gives the same text.
RoundTripLaw ==
    /\ pc \in {"reparsed", "done"} =>
         cfg2.ok /\ PartialEq(ConfigurationT, cfg2.v, cfg.v)
    /\ pc = "done" => text2.ok /\ text2.v = text.v

\* every Duration of a value of type ty is one second, every collection empty
RECURSIVE AllDefaults(_, _)
AllDefaults(ty, v) ==
    CASE ty.k = "Duration" -> v = [secs |-> 1, nanos |-> 0]
      [] ty.k \in {"Vec", "BTreeMap"} -> v = <<>>
      [] ty.k = "StorageMedia" -> v = [var |-> "filesystem", opts |-> <<>>]
      [] ty.k = "Option" -> v.some => AllDefaults(ty.of, v.v)
      [] ty.k = "struct" ->
           \A i \in 1..Len(Fields(ty.name)) :
               AllDefaults(Fields(ty.name)[i].ty, v[Fields(ty.name)[i].rust])
      [] OTHER -> TRUE

\* C2: default completeness: the empty document and the document of the
\* version alone parse, to a Configuration whose durations are one second,
\* whose collections are empty and whose storage media is filesystem with no
\* options.
DefaultCompleteness ==
    pc = "parsed" /\ doc \in {EmptyDocument, VersionOnly} =>
        cfg.ok /\ AllDefaults(ConfigurationT, cfg.v)

StorageKeys == IF doc.k = "map" /\ HasKey(doc, "storage") /\ doc.at["storage"].k = "map"
               THEN doc.at["storage"].keys ELSE <<>>
DiscriminatorKeys ==
    SelectSeq(StorageKeys, LAMBDA key : key \in {"filesystem", "s3", "inmemory"})
StorageSectionDoc == doc \in StorageDocs \cup {MalformedFirst, MalformedSecond}

\* C3: zero-discriminator defaulting: a storage section with none of the keys
\* filesystem, s3, inmemory parses, to the media filesystem with no options.
ZeroDiscriminatorDefault ==
    pc = "parsed" /\ StorageSectionDoc /\ Len(DiscriminatorKeys) = 0 =>
        cfg.ok /\ cfg.v.storage.media = [var |-> "filesystem", opts |-> <<>>]

\* the storage section of the document with its keys in reverse order
ReversedStorage ==
    LET st == doc.at["storage"]
        n == Len(st.keys)
    IN [doc EXCEPT !.at["storage"].keys = [i \in 1..n |-> st.keys[n + 1 - i]]]

Bags(c) ==
    << c.storage.media.opts, c.storage.cache.v.parameters,
       c.storage.delete.v.parameters, c.storage.redirect.v.parameters,
       c.auth["silly"].parameters, c.middleware["registry"][1].options.parameters >>
BagNode == doc.at["storage"].at["s3"]

\* what each kind of scalar is to become
Expected(n) ==
    LET c == Resolve(n) IN
    CASE c.c \in {"U64", "I64"} -> [var |-> "Integer", i |-> c.n]
      [] c.c = "F64" -> [var |-> "Double", f |-> c.f]
      [] c.c = "Str" -> [var |-> "String", s |-> c.s]
      [] c.c = "Bool" -> [var |-> "Boolean", b |-> c.b]
      [] c.c = "Unit" -> [var |-> "Null"]

\* C5: untagged-variant priority: every scalar of a bag becomes the first of
\* integer, float, string, boolean, null that takes it: integer literals are
\* Integer (not Double or String), quoted scalars String, true and false
\* Boolean, nulls Null; 42 is Integer(42) and "42" is String("42"); the same
\* scalar becomes the same Parameter in every bag.
UntaggedVariantPriority ==
    pc = "parsed" /\ doc \in BagDocs =>
        /\ cfg.ok
        /\ \A b \in 1..Len(Bags(cfg.v)) : \A key \in {"zone", "port"} :
             LET n == BagNode.at[key]
                 p == Bags(cfg.v)[b][key]
             IN /\ p = Expected(n)
                /\ n = Plain("42") => p = [var |-> "Integer", i |-> 42]
                /\ n = Quoted("42") => p = [var |-> "String", s |-> "42"]
                /\ n = Plain("true") => p = [var |-> "Boolean", b |-> TRUE]
                /\ n \in {Plain("~"), Plain("null")} => p = [var |-> "Null"]
                /\ n.quoted => p.var = "String"
                /\ (~n.quoted /\ IsIntText(n.text)) => p.var = "Integer"

UntaggedVariantWitness ==
    /\ pc = "parsed" /\ doc \in BagDocs /\ cfg.ok
    /\ BagNode.at["zone"] = Plain("42")
    /\ cfg.v.storage.media.opts["zone"] = [var |-> "Integer", i |-> 42]

OmitTweaks == { tw \in Tweaks : tw.kind = "omit" /\ tw.name # "Configuration" }

\* C6: field-at-a-time defaulting: a document that leaves one field of one
\* nested record out parses, to the Configuration of the document that spells
\* that field's default out.
FieldAtATimeDefaulting ==
    pc = "parsed" =>
        \A tw \in OmitTweaks :
            doc = TweakDocs[tw] =>
                /\ cfg.ok
                /\ cfg = ParseStr(Sample(ConfigurationT, Explicit(tw.name, tw.rust)))

\* C7: unknown-key tolerance: the undeclared keys of a bag do not make the
\* parse fail, and after parse, serialize, parse every bag holds exactly the
\* document's keys, each with the Parameter variant and value of the first
\* parse.
UnknownKeyTolerance ==
    doc \in BagDocs =>
        /\ pc \in {"parsed", "serialized", "reparsed", "done"} =>
             /\ cfg.ok
             /\ \A b \in 1..Len(Bags(cfg.v)) : DOMAIN Bags(cfg.v)[b] = DOMAIN BagNode.at
        /\ pc \in {"serialized", "reparsed", "done"} => text.ok
        /\ pc \in {"reparsed", "done"} =>
             /\ cfg2.ok
             /\ \A b \in 1..Len(Bags(cfg.v)) :
                  /\ DOMAIN Bags(cfg2.v)[b] = DOMAIN BagNode.at
                  /\ \A key \in DOMAIN BagNode.at :
                       Bags(cfg2.v)[b][key] = Bags(cfg.v)[b][key]

UnknownKeyWitness ==
    /\ pc = "reparsed" /\ doc \in BagDocs /\ cfg2.ok
    /\ BagNode.at["zone"] = Quoted("42") /\ BagNode.at["port"] = Plain("~")
    /\ cfg2.v.auth["silly"].parameters =
         [zone |-> [var |-> "String", s |-> "42"], port |-> [var |-> "Null"]]

\* C8: duration serialization round trip: a Duration is written as its whole
\* seconds, "s", a space, its sub-second nanoseconds, "ns", both always there
\* (one second is "1s 0ns"), and that text parses back to the same Duration.
DurationRoundTrip ==
    /\ pc \in {"durSerialized", "durReparsed"} =>
         /\ durText = Itoa(dur.v.secs) \o "s " \o Itoa(dur.v.nanos) \o "ns"
         /\ dur.v.nanos \in 0..999999999
         /\ dur.v = [secs |-> 1, nanos |-> 0] => durText = "1s 0ns"
    /\ pc = "durReparsed" => durBack.ok /\ durBack.v = dur.v

DurationRoundTripWitness ==
    /\ pc = "durReparsed" /\ durIn = "1m 500ms"
    /\ dur.v = [secs |-> 60, nanos |-> 500000000]
    /\ durText = "60s 500000000ns" /\ durBack.v = dur.v

BadDurationDoc ==
    \/ \E tw \in Tweaks : tw.kind = "baddur" /\ doc = TweakDocs[tw]
    \/ \E t \in BadDurations : doc = DurationDoc(t)

\* C9: all-or-nothing on an invalid duration: a document whose only fault is
\* one duration field, at whatever depth, with a text that is no duration
\* yields the duration error and no Configuration.
InvalidDurationAborts ==
    pc # "start" /\ BadDurationDoc =>
        /\ ~cfg.ok /\ cfg.err = "can't parse the duration"
        /\ pc = "parsed"

InvalidDurationWitness ==
    /\ pc = "parsed" /\ doc = TweakDocs[BadDuration("EndPoint", "timeout")]
    /\ ~cfg.ok

\* the keys of every mapping of a node
RECURSIVE KeysIn(_)
KeysIn(n) ==
    CASE n.k = "map" ->
           DOMAIN n.at \cup UNION { KeysIn(n.at[key]) : key \in DOMAIN n.at }
      [] n.k = "seq" -> UNION { KeysIn(n.items[i]) : i \in 1..Len(n.items) }
      [] OTHER -> {}

\* C10: field-name rule: no key that serializing a Configuration writes, at
\* the top level or in any nested record, has an underscore in it.
FieldNameRule ==
    pc = "serialized" /\ text.ok =>
        \A key \in KeysIn(text.v) : ~InText("_", key)

====
